---- MODULE Spec2Model ----
(***************************************************************************)
(* A model of the host-discovery engine of STMAHM: the subnet enumerator   *)
(* (src/src/network/subnet.rs), the Layer-2 discovery engine               *)
(* (src/src/scanner/arp.rs) and the latency prober                         *)
(* (src/src/scanner/icmp.rs).                                              *)
(*                                                                         *)
(* IPv4 addresses are 4-tuples of octets.  A u32 does not fit TLC's        *)
(* integers, so a u32 is a pair <<hi, lo>> of 16-bit halves and the        *)
(* bitwise operations of the ipnetwork crate work on the halves.           *)
(* Time is counted in units of 500 ms (the grace period of arp.rs:105);     *)
(* a thread keeps the time left to a deadline, not the deadline's instant.  *)
(***************************************************************************)
EXTENDS Integers, Sequences, FiniteSets, TLC

VARIABLES
    sn_pc,        \* subnet enumerator: "idle" | "call" | "done"
    sn_iface,     \* its argument: [ip, prefix_len]
    sn_result     \* its result: NoResult | [ok, subnet, ips]

snVars == <<sn_pc, sn_iface, sn_result>>

VARIABLES
    a_pc,         \* active_arp_scan: the calling thread's position
    a_iface,      \* argument interface: [ip, prefix_len, mac]
    a_targets,    \* argument target_ips
    a_subnet,     \* argument subnet
    a_result,     \* NoResult | [ok |-> TRUE, map] | [ok |-> FALSE, error, text]
    discovered,   \* the shared map Ipv4Addr -> MacAddr
    a_lock,       \* holder of the map's mutex: "free" | "receiver" | "main"
    a_round,      \* round of the for loop, 1..ARP_ROUNDS
    a_elapsed,    \* round_start.elapsed(), counted up to ARP_TIMEOUT_MS
    a_idx,        \* position of the filter closure in target_ips
    a_remaining,  \* remaining: requests of this round still to send
    a_sleep,      \* what is left of the calling thread's current sleep
    a_sent,       \* frames handed to tx.send_to so far
    a_known,      \* history: the addresses in the map when the round began
    a_eval,       \* history: per target, what the round's filter saw of it:
                  \*   "unseen" | "missing" | "present"
    a_count,      \* history: per target, requests sent to it in this round
    a_total,      \* history: per target, requests sent to it in this scan
    r_pc,         \* receiver thread's position
    r_left,       \* time left until the receiver's deadline
    r_frame,      \* the frame rx.next() returned last
    r_verdict,    \* what became of it: "none" | "dropped" | "pending" |
                  \*   "inserted" | "ignored"
    arrived,      \* number of frames rx.next() has returned
    qual_arrived, \* history: a frame returned was an ARP reply from a host
    heard         \* history: per host, the hardware address of the first ARP
                  \*   reply from it that rx.next() returned

arpVars == <<a_pc, a_iface, a_targets, a_subnet, a_result, discovered,
             a_lock, a_round, a_elapsed, a_idx, a_remaining, a_sleep,
             a_sent, a_known, a_eval, a_count, a_total, r_pc, r_left,
             r_frame, r_verdict, arrived, qual_arrived, heard>>

mainVars == <<a_pc, a_result, a_round, a_elapsed, a_idx, a_remaining,
              a_sleep, a_sent, a_known, a_eval, a_count, a_total>>
sendVars == <<a_sent, a_known, a_eval, a_count, a_total>>
recvVars == <<r_pc, r_left, r_frame, r_verdict>>
argVars == <<a_iface, a_targets, a_subnet>>
linkVars == <<arrived, qual_arrived, heard>>

VARIABLES
    i_pc,         \* icmp_scan: the calling task's position
    i_hosts,      \* argument arp_hosts
    i_permits,    \* permits the semaphore has available
    i_handles,    \* handles, in spawn order
    i_times,      \* response_times
    i_result,     \* NoResult | [ok |-> TRUE, map]
    i_client,     \* "none" | "ok" | "unavailable": what Client::new gave
    t_pc,         \* per address: the probe task's position
    t_attempt,    \* per address: attempt of ping_host_with_retries (failed so far)
    t_elapsed,    \* per address: start.elapsed()
    t_timer,      \* per address: time the attempt in flight has taken
    t_duration,   \* per address: the value ping_host_with_retries returned
    t_failed,     \* per address, history: failed attempts of the task took time
    t_started,    \* per address, history: echo attempts the task has started
    t_fails,      \* per address, history: attempts that ended in Err
    t_oks         \* per address, history: attempts that ended in Ok

attemptVars == <<t_started, t_fails, t_oks>>
icmpVars == <<i_pc, i_hosts, i_permits, i_handles, i_times, i_result, i_client,
              t_pc, t_attempt, t_elapsed, t_timer, t_duration, t_failed,
              attemptVars>>
taskVars == <<t_pc, t_attempt, t_elapsed, t_timer, t_duration, t_failed,
              attemptVars>>

VARIABLES
    OUI_DB,       \* the OnceLock: [state: "empty" | "running" | "set", value]
    v_loads,      \* history: times the initializer closure has run
    v_pc,         \* per thread: position in lookup_vendor
    v_mac,        \* per thread: argument mac
    v_result,     \* per thread: what the last lookup_vendor returned
    v_calls       \* per thread: calls of lookup_vendor completed

vendorVars == <<OUI_DB, v_loads, v_pc, v_mac, v_result, v_calls>>

vars == <<snVars, arpVars, icmpVars, vendorVars>>

\* The variables the Layer-2 scan leaves alone.
otherVars == <<snVars, icmpVars, vendorVars>>

NoResult == [ok |-> FALSE, none |-> TRUE]

(***************************************************************************)
(* Bounds                                                                  *)
(***************************************************************************)
\* Subnets of at most 2^MaxHostBits addresses are enumerated.
MaxHostBits == 4
\* prefix_len is a u8; lengths up to IPV4_BITS + MaxBadPrefix are tried.
MaxBadPrefix == 2
\* config::ARP_ROUNDS and config::ARP_TIMEOUT_MS (in time units): the
\* configuration is not part of the sources, the values are stand-ins.
ARP_ROUNDS == 2
ARP_TIMEOUT_MS == 1
\* rx.next() returns at most MaxFrames frames during a scan.
MaxFrames == 2
\* config::MAX_CONCURRENT_PINGS, config::PING_RETRIES and config::PING_TIMEOUT
\* (in time units): stand-ins, as above.
MAX_CONCURRENT_PINGS == 1
PING_RETRIES == 2
PING_TIMEOUT == 1
\* icmp_scan alone is given maps of up to MaxHosts addresses.
MaxHosts == 2
\* MaxThreads threads call lookup_vendor, each up to MaxLookups times.
MaxThreads == 2
MaxLookups == 2

IPV4_BITS == 32

(***************************************************************************)
(* 16-bit halves and u32 arithmetic                                        *)
(***************************************************************************)
Half == 65536

RECURSIVE BitAnd(_, _, _)
BitAnd(a, b, n) ==
    IF n = 0 THEN 0
    ELSE (IF a % 2 = 1 /\ b % 2 = 1 THEN 1 ELSE 0)
         + 2 * BitAnd(a \div 2, b \div 2, n - 1)

RECURSIVE BitOr(_, _, _)
BitOr(a, b, n) ==
    IF n = 0 THEN 0
    ELSE (IF a % 2 = 1 \/ b % 2 = 1 THEN 1 ELSE 0)
         + 2 * BitOr(a \div 2, b \div 2, n - 1)

BitNot(a) == (Half - 1) - a

And32(u, v) == <<BitAnd(u[1], v[1], 16), BitAnd(u[2], v[2], 16)>>
Or32(u, v)  == <<BitOr(u[1], v[1], 16), BitOr(u[2], v[2], 16)>>
Not32(u)    == <<BitNot(u[1]), BitNot(u[2])>>

\* u32::from(Ipv4Addr) and Ipv4Addr::from(u32)
ToU32(addr) == <<addr[1] * 256 + addr[2], addr[3] * 256 + addr[4]>>
FromU32(u)  == <<u[1] \div 256, u[1] % 256, u[2] \div 256, u[2] % 256>>

Leq32(u, v) == u[1] < v[1] \/ (u[1] = v[1] /\ u[2] <= v[2])
Lt32(u, v)  == Leq32(u, v) /\ u # v
Succ32(u)   == IF u[2] = Half - 1 THEN <<(u[1] + 1) % Half, 0>>
               ELSE <<u[1], u[2] + 1>>

(***************************************************************************)
(* ipnetwork::Ipv4Network, as used by subnet.rs and arp.rs                 *)
(***************************************************************************)
\* A constructor that takes a prefix length above IPV4_BITS for IPV4_BITS.
NewNetwork_Clamped(addr, prefix) ==
    [ok |-> TRUE, addr |-> addr,
     prefix |-> IF prefix > IPV4_BITS THEN IPV4_BITS ELSE prefix]

\* Ipv4Network::new: Err(InvalidPrefix) when prefix > IPV4_BITS
NewNetwork(addr, prefix) ==
    IF prefix > IPV4_BITS THEN [ok |-> FALSE]
    ELSE [ok |-> TRUE, addr |-> addr, prefix |-> prefix]

\* mask(): !(0xffff_ffff as u64 >> prefix) as u32
Mask(prefix) ==
    LET h == IPV4_BITS - prefix
    IN  IF h <= 16 THEN <<Half - 1, Half - 2 ^ h>>
        ELSE <<Half - 2 ^ (h - 16), 0>>

Network(net)   == FromU32(And32(ToU32(net.addr), Mask(net.prefix)))
Broadcast(net) == FromU32(Or32(ToU32(net.addr), Not32(Mask(net.prefix))))
Contains(net, ip) ==
    And32(ToU32(ip), Mask(net.prefix)) = And32(ToU32(net.addr), Mask(net.prefix))

\* Ipv4NetworkIterator: from network() up to broadcast(), ascending
RECURSIVE IterFrom(_, _)
IterFrom(next, end) ==
    IF Lt32(end, next) THEN <<>>
    ELSE IF next = end THEN <<FromU32(next)>>
    ELSE <<FromU32(next)>> \o IterFrom(Succ32(next), end)

Iter(net) == IterFrom(ToU32(Network(net)), ToU32(Broadcast(net)))

(***************************************************************************)
(* src/src/network/subnet.rs                                               *)
(***************************************************************************)
\* is_special_address without the broadcast address.
is_special_address_NetworkOnly(ip, subnet) == ip = Network(subnet)

is_special_address(ip, subnet) ==
    ip = Network(subnet) \/ ip = Broadcast(subnet)

\* .filter(|ip| !is_special_address(*ip, &subnet)).collect()
RECURSIVE FilterNotSpecial(_, _)
FilterNotSpecial(s, subnet) ==
    IF s = <<>> THEN <<>>
    ELSE (IF ~is_special_address(Head(s), subnet) THEN <<Head(s)>> ELSE <<>>)
         \o FilterNotSpecial(Tail(s), subnet)

calculate_subnet_ips(interface) ==
    LET network == NewNetwork(interface.ip, interface.prefix_len)
    IN  IF ~network.ok
        THEN [ok |-> FALSE, none |-> FALSE,
              error |-> "Failed to create network from interface IP and prefix"]
        ELSE LET subnet == NewNetwork(Network(network), interface.prefix_len)
             IN  IF ~subnet.ok
                 THEN [ok |-> FALSE, none |-> FALSE,
                       error |-> "Failed to create subnet network"]
                 ELSE [ok |-> TRUE, subnet |-> subnet,
                       ips |-> FilterNotSpecial(Iter(subnet), subnet)]

\* The interfaces the enumerator is called with.
SubnetAddrs ==
    {<<192, 168, 1, d>> : d \in {0, 8, 9, 10, 15, 16, 255}}
      \cup {<<10, 0, 255, 255>>, <<10, 1, 0, 0>>, <<255, 255, 255, 255>>, <<0, 0, 0, 0>>}

SubnetPrefixes == (IPV4_BITS - MaxHostBits) .. (IPV4_BITS + MaxBadPrefix)

SubnetInit ==
    /\ sn_pc = "call"
    /\ sn_iface \in [ip : SubnetAddrs, prefix_len : SubnetPrefixes]
    /\ sn_result = NoResult

SubnetCall ==
    /\ sn_pc = "call"
    /\ sn_pc' = "done"
    /\ sn_result' = calculate_subnet_ips(sn_iface)
    /\ UNCHANGED sn_iface

SubnetNext == SubnetCall /\ UNCHANGED <<arpVars, icmpVars, vendorVars>>

\* The enumerator is not running.
SubnetIdle ==
    /\ sn_pc = "idle"
    /\ sn_iface = [ip |-> <<0, 0, 0, 0>>, prefix_len |-> 0]
    /\ sn_result = NoResult

(***************************************************************************)
(* src/src/scanner/arp.rs                                                  *)
(***************************************************************************)
\* Durations of arp.rs in time units of 500 ms; a sleep shorter than a unit
\* may end within the unit it began in.
GRACE_MS == 1
SPAWN_SLEEP_MS == 0

BROADCAST_MAC == "ff:ff:ff:ff:ff:ff"
ZERO_MAC == "00:00:00:00:00:00"

Max(a, b) == IF a >= b THEN a ELSE b
SaturatingSub(a, b) == Max(a - b, 0)

EmptyMap == [x \in {} |-> 0]
Insert(map, k, v) == [x \in DOMAIN map \cup {k} |-> IF x = k THEN v ELSE map[x]]

create_arp_request(source_mac, source_ip, target_ip) ==
    [dst |-> BROADCAST_MAC, src |-> source_mac, ethertype |-> "arp",
     op |-> "request", sender_mac |-> source_mac, sender_ip |-> source_ip,
     target_mac |-> ZERO_MAC, target_ip |-> target_ip]

\* Error texts, as character sequences (str::contains is case-sensitive).
KW_requires == <<"r", "e", "q", "u", "i", "r", "e", "s">>
KW_permission == <<"p", "e", "r", "m", "i", "s", "s", "i", "o", "n">>
KW_Access == <<"A", "c", "c", "e", "s", "s">>
KW_Npcap == <<"N", "p", "c", "a", "p">>
KW_WinPcap == <<"W", "i", "n", "P", "c", "a", "p">>
TXT_EPERM ==
    <<"O", "p", "e", "r", "a", "t", "i", "o", "n", " ", "n", "o", "t", " ", "p", "e", "r", "m", "i", "t", "t", "e", "d", " ", "(", "o", "s", " ", "e", "r", "r", "o", "r", " ", "1", ")">>
TXT_EACCES ==
    <<"P", "e", "r", "m", "i", "s", "s", "i", "o", "n", " ", "d", "e", "n", "i", "e", "d", " ", "(", "o", "s", " ", "e", "r", "r", "o", "r", " ", "1", "3", ")">>
TXT_WINACCESS == <<"A", "c", "c", "e", "s", "s", " ", "i", "s", " ", "d", "e", "n", "i", "e", "d">>
TXT_PCAP == <<"Y", "o", "u", " ", "d", "o", "n", "'", "t", " ", "h", "a", "v", "e", " ", "p", "e", "r", "m", "i", "s", "s", "i", "o", "n">>
TXT_NODEV ==
    <<"N", "o", " ", "s", "u", "c", "h", " ", "d", "e", "v", "i", "c", "e", " ", "(", "o", "s", " ", "e", "r", "r", "o", "r", " ", "1", "9", ")">>
TXT_NPCAP == <<"r", "e", "q", "u", "i", "r", "e", "s", " ", "N", "p", "c", "a", "p">>

\* str::contains
StrContains(text, pat) ==
    \E i \in 1 .. (Len(text) - Len(pat) + 1) :
        SubSeq(text, i, i + Len(pat) - 1) = pat

\* The condition of arp.rs:81-85
NeedsRemediation(error_msg) ==
    \/ StrContains(error_msg, KW_requires)
    \/ StrContains(error_msg, KW_permission)
    \/ StrContains(error_msg, KW_Access)
    \/ StrContains(error_msg, KW_Npcap)
    \/ StrContains(error_msg, KW_WinPcap)

\* What datalink::channel can return.
ChannelErrorTexts ==
    {TXT_EPERM, TXT_EACCES, TXT_WINACCESS, TXT_PCAP, TXT_NODEV, TXT_NPCAP}
ChannelOutcomes ==
    {[kind |-> "ethernet", text |-> <<>>], [kind |-> "other", text |-> <<>>]}
      \cup {[kind |-> "err", text |-> t] : t \in ChannelErrorTexts}

\* The result of the match of arp.rs:76-99 when the channel did not open.
OpenFailure(outcome) ==
    IF outcome.kind = "other"
    THEN [ok |-> FALSE, none |-> FALSE, error |-> "unsupported", text |-> <<>>]
    ELSE IF NeedsRemediation(outcome.text)
    THEN [ok |-> FALSE, none |-> FALSE, error |-> "remediation", text |-> outcome.text]
    ELSE [ok |-> FALSE, none |-> FALSE, error |-> "generic", text |-> outcome.text]

TotalTimeout == ARP_TIMEOUT_MS * ARP_ROUNDS + GRACE_MS

\* The scans modelled: interface 192.168.1.10/30, targets and subnet as
\* calculate_subnet_ips gives them.
ArpIface == [ip |-> <<192, 168, 1, 10>>, prefix_len |-> 30, mac |-> "if:mac"]
NoFrame == [ethertype |-> "none"]

\* Frames the link can deliver: ARP replies from the hosts of the subnet (from
\* one of them with two hardware addresses), from its network and its
\* broadcast address and from outside, an ARP request, and a frame of another
\* ethertype.
ReplyFrom(ip, mac) ==
    [dst |-> "if:mac", src |-> mac, ethertype |-> "arp", op |-> "reply",
     sender_mac |-> mac, sender_ip |-> ip,
     target_mac |-> "if:mac", target_ip |-> <<192, 168, 1, 10>>]
LinkFrames ==
    {ReplyFrom(<<192, 168, 1, 9>>, "m1"), ReplyFrom(<<192, 168, 1, 9>>, "m2"),
     ReplyFrom(<<192, 168, 1, 10>>, "m3"),
     ReplyFrom(<<192, 168, 1, 8>>, "m1"), ReplyFrom(<<192, 168, 1, 11>>, "m1"),
     ReplyFrom(<<192, 168, 1, 12>>, "m1"),
     [ReplyFrom(<<192, 168, 1, 9>>, "m2") EXCEPT !.op = "request"],
     [ReplyFrom(<<192, 168, 1, 9>>, "m2") EXCEPT !.ethertype = "ipv4"]}

\* History only: the frame is an ARP reply whose sender lies strictly between
\* the first and the last address of the subnet (the subnets modelled are
\* /16 or longer, so the comparison is on the low 16 bits).
IsHostReply(frame, subnet) ==
    /\ frame.ethertype = "arp"
    /\ frame.op = "reply"
    /\ frame.sender_ip[1] = subnet.addr[1]
    /\ frame.sender_ip[2] = subnet.addr[2]
    /\ LET low == frame.sender_ip[3] * 256 + frame.sender_ip[4]
           first == subnet.addr[3] * 256 + subnet.addr[4]
           last == first + 2 ^ (IPV4_BITS - subnet.prefix) - 1
       IN  first < low /\ low < last

\* Qualifies without the test that the sender lies in the subnet.
Qualifies_AnySender(frame, subnet) ==
    /\ frame.ethertype = "arp"
    /\ frame.op = "reply"
    /\ ~is_special_address(frame.sender_ip, subnet)

\* Qualifies without the test of the operation (arp.rs:120).
Qualifies_AnyOperation(frame, subnet) ==
    /\ frame.ethertype = "arp"
    /\ Contains(subnet, frame.sender_ip)
    /\ ~is_special_address(frame.sender_ip, subnet)

\* arp.rs:117-124: the frame is an ARP reply whose sender is a host of the subnet
Qualifies(frame, subnet) ==
    /\ frame.ethertype = "arp"
    /\ frame.op = "reply"
    /\ Contains(subnet, frame.sender_ip)
    /\ ~is_special_address(frame.sender_ip, subnet)

\* CheckAndInsert without the contains_key test: the last reply wins.
CheckAndInsert_Overwrite(map, sender_ip, sender_mac) ==
    Insert(map, sender_ip, sender_mac)

\* arp.rs:126-128
CheckAndInsert(map, sender_ip, sender_mac) ==
    IF sender_ip \notin DOMAIN map THEN Insert(map, sender_ip, sender_mac)
    ELSE map

\* Nothing recorded yet about any of the targets.
NoneOf(targets, v) == [ip \in {targets[i] : i \in 1..Len(targets)} |-> v]

\* The locals of active_arp_scan before the call.
ArpFresh ==
    /\ a_iface = ArpIface
    /\ a_targets = calculate_subnet_ips(ArpIface).ips
    /\ a_subnet = calculate_subnet_ips(ArpIface).subnet
    /\ a_result = NoResult
    /\ discovered = EmptyMap
    /\ a_lock = "free"
    /\ a_round = 1
    /\ a_elapsed = 0
    /\ a_idx = 1
    /\ a_remaining = <<>>
    /\ a_sleep = 0
    /\ a_sent = {}
    /\ a_known = {}
    /\ a_eval = NoneOf(a_targets, "unseen")
    /\ a_count = NoneOf(a_targets, 0)
    /\ a_total = NoneOf(a_targets, 0)
    /\ r_pc = "none"
    /\ r_left = 0
    /\ r_frame = NoFrame
    /\ r_verdict = "none"
    /\ arrived = 0
    /\ qual_arrived = FALSE
    /\ heard = EmptyMap

ArpInit == a_pc = "open" /\ ArpFresh
ArpIdle == a_pc = "idle" /\ ArpFresh

\* arp.rs:76-99: datalink::channel(&interface.pnet_interface, Default::default())
ArpOpen ==
    /\ a_pc = "open"
    /\ \E outcome \in ChannelOutcomes :
         IF outcome.kind = "ethernet"
         THEN /\ a_pc' = "spawn"
              /\ UNCHANGED a_result
         ELSE /\ a_pc' = "failed"
              /\ a_result' = OpenFailure(outcome)
    /\ UNCHANGED <<argVars, discovered, a_lock, a_round, a_elapsed, a_idx,
                   a_remaining, a_sleep, sendVars, recvVars, linkVars>>
    /\ UNCHANGED otherVars

\* arp.rs:101-142: the map, the receiver thread, then sleep(10 ms)
ArpSpawn ==
    /\ a_pc = "spawn"
    /\ discovered' = EmptyMap
    /\ r_pc' = "start"
    /\ a_sleep' = SPAWN_SLEEP_MS
    /\ a_pc' = "spawn_sleep"
    /\ UNCHANGED <<argVars, a_result, a_lock, a_round, a_elapsed, a_idx,
                   a_remaining, sendVars, r_left, r_frame, r_verdict, linkVars>>
    /\ UNCHANGED otherVars

ArpSpawnWake ==
    /\ a_pc = "spawn_sleep"
    /\ a_sleep = 0
    /\ a_pc' = "round_start"
    /\ a_round' = 1
    /\ UNCHANGED <<argVars, a_result, discovered, a_lock, a_elapsed, a_idx,
                   a_remaining, a_sleep, sendVars, recvVars, linkVars>>
    /\ UNCHANGED otherVars

\* arp.rs:146-148: round_start = Instant::now(), discovered.lock().unwrap().len()
ArpRoundStart ==
    /\ a_pc = "round_start"
    /\ a_lock = "free"
    /\ a_elapsed' = 0
    /\ a_idx' = 1
    /\ a_remaining' = <<>>
    /\ a_pc' = IF Len(a_targets) = 0 THEN "send" ELSE "filter"
    /\ a_known' = DOMAIN discovered
    /\ a_eval' = NoneOf(a_targets, "unseen")
    /\ a_count' = NoneOf(a_targets, 0)
    /\ UNCHANGED <<argVars, a_result, discovered, a_lock, a_round, a_sleep,
                   a_sent, a_total, recvVars, linkVars>>
    /\ UNCHANGED otherVars

\* arp.rs:150: the filter keeps every target, known or not
StillMissing_Always(map, ip) == TRUE

\* arp.rs:150: !discovered.lock().unwrap().contains_key(ip)
StillMissing(map, ip) == ip \notin DOMAIN map

\* arp.rs:149-152: one call of the filter closure, the lock taken for it;
\* after the last target the remaining list is complete
ArpFilter ==
    /\ a_pc = "filter"
    /\ a_idx <= Len(a_targets)
    /\ a_lock = "free"
    /\ a_remaining' = IF StillMissing(discovered, a_targets[a_idx])
                      THEN Append(a_remaining, a_targets[a_idx])
                      ELSE a_remaining
    /\ a_eval' = [a_eval EXCEPT ![a_targets[a_idx]] =
                     IF a_targets[a_idx] \in DOMAIN discovered
                     THEN "present" ELSE "missing"]
    /\ a_idx' = a_idx + 1
    /\ a_pc' = IF a_idx = Len(a_targets) THEN "send" ELSE "filter"
    /\ UNCHANGED <<argVars, a_result, discovered, a_lock, a_round,
                   a_elapsed, a_sleep, a_sent, a_known, a_count, a_total,
                   recvVars, linkVars>>
    /\ UNCHANGED otherVars

\* arp.rs:159-162: one iteration of the send loop
ArpSend ==
    /\ a_pc = "send"
    /\ a_remaining # <<>>
    /\ a_sent' = a_sent \cup
                   {create_arp_request(a_iface.mac, a_iface.ip, Head(a_remaining))}
    /\ a_remaining' = Tail(a_remaining)
    /\ a_count' = [a_count EXCEPT ![Head(a_remaining)] = @ + 1]
    /\ a_total' = [a_total EXCEPT ![Head(a_remaining)] = @ + 1]
    /\ UNCHANGED <<argVars, a_pc, a_result, discovered, a_lock, a_round,
                   a_elapsed, a_idx, a_sleep, a_known, a_eval, recvVars,
                   linkVars>>
    /\ UNCHANGED otherVars

\* arp.rs:165: no wait at all, the next round follows the sends at once
wait_time_None(elapsed) == 0

\* arp.rs:165: Duration::from_millis(ARP_TIMEOUT_MS).saturating_sub(elapsed)
wait_time(elapsed) == SaturatingSub(ARP_TIMEOUT_MS, elapsed)

\* arp.rs:164-168: wait out what is left of the round's budget
ArpWait ==
    /\ a_pc = "send"
    /\ a_remaining = <<>>
    /\ LET elapsed == a_elapsed
       IN  IF wait_time(elapsed) > 0
           THEN /\ a_sleep' = wait_time(elapsed)
                /\ a_pc' = "sleeping"
           ELSE /\ a_pc' = "round_end"
                /\ UNCHANGED a_sleep
    /\ UNCHANGED <<argVars, a_result, discovered, a_lock, a_round, a_elapsed,
                   a_idx, a_remaining, sendVars, recvVars, linkVars>>
    /\ UNCHANGED otherVars

ArpWake ==
    /\ a_pc = "sleeping"
    /\ a_sleep = 0
    /\ a_pc' = "round_end"
    /\ UNCHANGED <<argVars, a_result, discovered, a_lock, a_round, a_elapsed,
                   a_idx, a_remaining, a_sleep, sendVars, recvVars, linkVars>>
    /\ UNCHANGED otherVars

\* arp.rs:170-172: current_count, then the next round or the join
ArpRoundEnd ==
    /\ a_pc = "round_end"
    /\ a_lock = "free"
    /\ IF a_round < ARP_ROUNDS
       THEN /\ a_round' = a_round + 1
            /\ a_pc' = "round_start"
       ELSE /\ a_pc' = "join"
            /\ UNCHANGED a_round
    /\ UNCHANGED <<argVars, a_result, discovered, a_lock, a_elapsed, a_idx,
                   a_remaining, a_sleep, sendVars, recvVars, linkVars>>
    /\ UNCHANGED otherVars

\* arp.rs:174: the handle is dropped instead of joined, the thread detached
JoinReturns_Detached(receiver) == TRUE

\* arp.rs:174: JoinHandle::join returns when the thread has finished
JoinReturns(receiver) == receiver = "done"

\* arp.rs:174: receiver_handle.join()
ArpJoin ==
    /\ a_pc = "join"
    /\ JoinReturns(r_pc)
    /\ a_pc' = "final_lock"
    /\ UNCHANGED <<argVars, a_result, discovered, a_lock, a_round, a_elapsed,
                   a_idx, a_remaining, a_sleep, sendVars, recvVars, linkVars>>
    /\ UNCHANGED otherVars

\* arp.rs:176: let map = discovered.lock().unwrap()
ArpFinalLock ==
    /\ a_pc = "final_lock"
    /\ a_lock = "free"
    /\ a_lock' = "main"
    /\ a_pc' = "final"
    /\ UNCHANGED <<argVars, a_result, discovered, a_round, a_elapsed, a_idx,
                   a_remaining, a_sleep, sendVars, recvVars, linkVars>>
    /\ UNCHANGED otherVars

\* arp.rs:187: Ok(map.clone()); the guard is dropped
ArpReturn ==
    /\ a_pc = "final"
    /\ a_result' = [ok |-> TRUE, none |-> FALSE, map |-> discovered]
    /\ a_lock' = "free"
    /\ a_pc' = "returned"
    /\ UNCHANGED <<argVars, discovered, a_round, a_elapsed, a_idx, a_remaining,
                   a_sleep, sendVars, recvVars, linkVars>>
    /\ UNCHANGED otherVars

\* arp.rs:112: let deadline = Instant::now() + total_timeout
RecvStart ==
    /\ r_pc = "start"
    /\ r_left' = TotalTimeout
    /\ r_pc' = "check"
    /\ UNCHANGED <<argVars, mainVars, discovered, a_lock, r_frame, r_verdict, linkVars>>
    /\ UNCHANGED otherVars

\* arp.rs:114: while Instant::now() < deadline; the frame of the iteration
\* before is gone
RecvCheck ==
    /\ r_pc = "check"
    /\ r_pc' = IF r_left > 0 THEN "next" ELSE "done"
    /\ r_frame' = NoFrame
    /\ r_verdict' = "none"
    /\ UNCHANGED <<argVars, mainVars, discovered, a_lock, r_left, linkVars>>
    /\ UNCHANGED otherVars

\* arp.rs:115-124: rx.next() returns a frame, any the link can deliver. The
\* channel was opened with the default configuration, which sets no read
\* timeout: the call returns only when a frame has arrived.
RecvNext ==
    /\ r_pc = "next"
    /\ arrived < MaxFrames
    /\ \E f \in LinkFrames :
         /\ r_frame' = f
         /\ qual_arrived' = (qual_arrived \/ IsHostReply(f, a_subnet))
         /\ heard' = IF IsHostReply(f, a_subnet) /\ f.sender_ip \notin DOMAIN heard
                     THEN Insert(heard, f.sender_ip, f.sender_mac)
                     ELSE heard
         /\ IF Qualifies(f, a_subnet)
            THEN /\ r_pc' = "lock"
                 /\ r_verdict' = "pending"
            ELSE /\ r_pc' = "check"
                 /\ r_verdict' = "dropped"
    /\ arrived' = arrived + 1
    /\ UNCHANGED <<argVars, mainVars, discovered, a_lock, r_left>>
    /\ UNCHANGED otherVars

\* arp.rs:135-137: rx.next() returns an error; sleep(50 us)
RecvNextErr ==
    /\ r_pc = "next"
    /\ r_pc' = "check"
    /\ UNCHANGED <<argVars, mainVars, discovered, a_lock, r_left, r_frame,
                   r_verdict, linkVars>>
    /\ UNCHANGED otherVars

\* arp.rs:125: let mut map = discovered_clone.lock().unwrap()
RecvLock ==
    /\ r_pc = "lock"
    /\ a_lock = "free"
    /\ a_lock' = "receiver"
    /\ r_pc' = "insert"
    /\ UNCHANGED <<argVars, mainVars, discovered, r_left, r_frame, r_verdict, linkVars>>
    /\ UNCHANGED otherVars

\* arp.rs:125: the guard is kept in a binding that outlives the block, so
\* the receiver goes back to rx.next() with the lock
GuardAfterBlock_Kept == "receiver"

\* arp.rs:125-129: `map` is declared inside the if block and dropped at
\* its end, which unlocks the mutex
GuardAfterBlock == "free"

\* arp.rs:126-129: check and insert, then the guard is dropped
RecvInsert ==
    /\ r_pc = "insert"
    /\ discovered' = CheckAndInsert(discovered, r_frame.sender_ip, r_frame.sender_mac)
    /\ r_verdict' = IF r_frame.sender_ip \in DOMAIN discovered THEN "ignored"
                    ELSE "inserted"
    /\ a_lock' = GuardAfterBlock
    /\ r_pc' = "check"
    /\ UNCHANGED <<argVars, mainVars, r_left, r_frame, linkVars>>
    /\ UNCHANGED otherVars

\* One unit of time passes: the receiver's deadline and the caller's sleep
\* come nearer, the round grows older (no older than its budget matters).
Tick ==
    /\ r_pc \notin {"none", "done"} \/ a_pc \in {"spawn_sleep", "round_start",
          "filter", "send", "sleeping", "round_end"}
    /\ r_left' = SaturatingSub(r_left, 1)
    /\ a_sleep' = SaturatingSub(a_sleep, 1)
    /\ a_elapsed' = IF a_elapsed < ARP_TIMEOUT_MS THEN a_elapsed + 1 ELSE a_elapsed
    /\ UNCHANGED <<argVars, a_pc, a_result, a_round, a_idx, a_remaining, sendVars,
                   r_pc, r_frame, r_verdict, discovered, a_lock, linkVars>>
    /\ UNCHANGED otherVars

MainStep ==
    \/ ArpOpen \/ ArpSpawn \/ ArpSpawnWake \/ ArpRoundStart \/ ArpFilter
    \/ ArpSend \/ ArpWait \/ ArpWake \/ ArpRoundEnd
    \/ ArpJoin \/ ArpFinalLock \/ ArpReturn

ReceiverStep == RecvStart \/ RecvCheck \/ RecvLock \/ RecvInsert

ArpNext ==
    \/ ArpOpen \/ ArpSpawn \/ ArpSpawnWake \/ ArpRoundStart \/ ArpFilter
    \/ ArpSend \/ ArpWait \/ ArpWake \/ ArpRoundEnd
    \/ ArpJoin \/ ArpFinalLock \/ ArpReturn
    \/ RecvStart \/ RecvCheck \/ RecvNext \/ RecvNextErr \/ RecvLock \/ RecvInsert
    \/ Tick

(***************************************************************************)
(* src/src/scanner/icmp.rs                                                 *)
(***************************************************************************)
\* The addresses a discovery map can hold: hosts of 192.168.1.8/29.
HostList == <<<<192, 168, 1, 9>>, <<192, 168, 1, 10>>, <<192, 168, 1, 12>>,
              <<192, 168, 1, 13>>, <<192, 168, 1, 14>>>>
Min(a, b) == IF a <= b THEN a ELSE b
IcmpAddrs == {HostList[i] : i \in 1 .. Min(MaxHosts, Len(HostList))}
AllAddrs == {HostList[i] : i \in 1 .. Len(HostList)}

\* Nothing of icmp_scan exists yet.
IcmpFresh ==
    /\ i_permits = 0
    /\ i_handles = <<>>
    /\ i_times = EmptyMap
    /\ i_result = NoResult
    /\ i_client = "none"
    /\ t_pc = [ip \in AllAddrs |-> "none"]
    /\ t_attempt = [ip \in AllAddrs |-> 0]
    /\ t_elapsed = [ip \in AllAddrs |-> 0]
    /\ t_timer = [ip \in AllAddrs |-> 0]
    /\ t_duration = [ip \in AllAddrs |-> 0]
    /\ t_failed = [ip \in AllAddrs |-> FALSE]
    /\ t_started = [ip \in AllAddrs |-> 0]
    /\ t_fails = [ip \in AllAddrs |-> 0]
    /\ t_oks = [ip \in AllAddrs |-> 0]

IcmpIdle ==
    /\ i_pc = "idle"
    /\ i_hosts = EmptyMap
    /\ IcmpFresh

\* icmp_scan called on its own, with any discovery map.
IcmpInit ==
    /\ i_pc = "called"
    /\ i_hosts \in {[ip \in keys |-> "m1"] : keys \in SUBSET IcmpAddrs}
    /\ IcmpFresh

\* A loop over every address that can be probed, not over the map's keys.
SpawnTargets_WholeSubnet(arp_hosts) == AllAddrs

\* icmp.rs:85: the addresses the loop spawns a task for
SpawnTargets(arp_hosts) == DOMAIN arp_hosts

\* start taken once, before the loop of attempts.
StartElapsed_BeforeLoop(attempt, elapsed) == IF attempt = 0 THEN 0 ELSE elapsed

\* icmp.rs:43: let start = Instant::now(), at the top of every attempt
StartElapsed(attempt, elapsed) == 0

\* A permit that is forgotten, not dropped.
Release_Leak(permits) == permits

\* icmp.rs:91-97: the permit is dropped when the task ends
Release(permits) == permits + 1

\* An acquire that never waits.
CanAcquire_Always(permits) == TRUE

\* icmp.rs:91: semaphore.acquire() completes when a permit is available
CanAcquire(permits) == permits > 0

\* An emptiness test that never holds.
IsEmpty_Never(arp_hosts) == FALSE

\* icmp.rs:62: arp_hosts.is_empty()
IsEmpty(arp_hosts) == DOMAIN arp_hosts = {}

\* icmp.rs:62-64
IcmpEmptyCheck ==
    /\ i_pc = "called"
    /\ IF IsEmpty(i_hosts)
       THEN /\ i_result' = [ok |-> TRUE, none |-> FALSE, map |-> EmptyMap]
            /\ i_pc' = "returned"
       ELSE /\ i_pc' = "client"
            /\ UNCHANGED i_result
    /\ UNCHANGED <<i_hosts, i_permits, i_handles, i_times, i_client, taskVars>>
    /\ UNCHANGED <<snVars, arpVars, vendorVars>>

\* The failure of Client::new handed on to the caller, as `?` would.
ClientUnavailable_Propagated ==
    [ok |-> FALSE, none |-> FALSE, error |-> "client", text |-> <<>>]

\* icmp.rs:74-77: Err(e) => log_warn, return Ok(HashMap::new())
ClientUnavailable == [ok |-> TRUE, none |-> FALSE, map |-> EmptyMap]

\* icmp.rs:71-81: Client::new, then the semaphore and the result map
IcmpClient ==
    /\ i_pc = "client"
    /\ \E made \in {"ok", "unavailable"} :
         /\ i_client' = made
         /\ IF made = "ok"
            THEN /\ i_permits' = MAX_CONCURRENT_PINGS
                 /\ i_times' = EmptyMap
                 /\ i_handles' = <<>>
                 /\ i_pc' = "spawning"
                 /\ UNCHANGED i_result
            ELSE /\ i_result' = ClientUnavailable
                 /\ i_pc' = "returned"
                 /\ UNCHANGED <<i_permits, i_times, i_handles>>
    /\ UNCHANGED <<i_hosts, taskVars>>
    /\ UNCHANGED <<snVars, arpVars, vendorVars>>

\* icmp.rs:85-100: one iteration of the loop over arp_hosts.keys(), whose
\* order is the hash map's
IcmpSpawn ==
    /\ i_pc = "spawning"
    /\ \E ip \in SpawnTargets(i_hosts) :
         /\ t_pc[ip] = "none"
         /\ t_pc' = [t_pc EXCEPT ![ip] = "acquire"]
         /\ i_handles' = Append(i_handles, ip)
    /\ UNCHANGED <<i_pc, i_hosts, i_permits, i_times, i_result, i_client,
                   t_attempt, t_elapsed, t_timer, t_duration, t_failed,
                   attemptVars>>
    /\ UNCHANGED <<snVars, arpVars, vendorVars>>

IcmpSpawnDone ==
    /\ i_pc = "spawning"
    /\ \A ip \in SpawnTargets(i_hosts) : t_pc[ip] # "none"
    /\ i_pc' = "awaiting"
    /\ UNCHANGED <<i_hosts, i_permits, i_handles, i_times, i_result, i_client,
                   taskVars>>
    /\ UNCHANGED <<snVars, arpVars, vendorVars>>

\* icmp.rs:102-104: handle.await, in spawn order
IcmpAwait ==
    /\ i_pc = "awaiting"
    /\ i_handles # <<>>
    /\ t_pc[Head(i_handles)] = "done"
    /\ i_handles' = Tail(i_handles)
    /\ UNCHANGED <<i_pc, i_hosts, i_permits, i_times, i_result, i_client, taskVars>>
    /\ UNCHANGED <<snVars, arpVars, vendorVars>>

\* icmp.rs:106-109: Ok(times.clone())
IcmpReturn ==
    /\ i_pc = "awaiting"
    /\ i_handles = <<>>
    /\ i_result' = [ok |-> TRUE, none |-> FALSE, map |-> i_times]
    /\ i_pc' = "returned"
    /\ UNCHANGED <<i_hosts, i_permits, i_handles, i_times, i_client, taskVars>>
    /\ UNCHANGED <<snVars, arpVars, vendorVars>>

\* icmp.rs:91-93, 42-49: the task gets its permit and ping_host_with_retries
\* starts its first attempt: start = Instant::now(), the echo request is
\* issued with its timeout
TaskAcquire ==
    /\ \E ip \in AllAddrs :
         /\ t_pc[ip] = "acquire"
         /\ CanAcquire(i_permits)
         /\ IF 0 < PING_RETRIES
            THEN /\ i_permits' = i_permits - 1
                 /\ t_pc' = [t_pc EXCEPT ![ip] = "pinging"]
            ELSE /\ i_permits' = Release(i_permits - 1)
                 /\ t_pc' = [t_pc EXCEPT ![ip] = "done"]
         /\ t_attempt' = [t_attempt EXCEPT ![ip] = 0]
         /\ t_elapsed' = [t_elapsed EXCEPT ![ip] = StartElapsed(0, @)]
         /\ t_timer' = [t_timer EXCEPT ![ip] = 0]
         /\ t_started' = [t_started EXCEPT ![ip] =
                            IF 0 < PING_RETRIES THEN 1 ELSE 0]
    /\ UNCHANGED <<i_pc, i_hosts, i_handles, i_times, i_result, i_client,
                   t_duration, t_failed, t_fails, t_oks>>
    /\ UNCHANGED <<snVars, arpVars, vendorVars>>

\* icmp.rs:51: Ok(_) => return Some(start.elapsed()); the task goes on to
\* response_times.lock().await (icmp.rs:94)
PingOk ==
    /\ \E ip \in AllAddrs :
         /\ t_pc[ip] = "pinging"
         /\ t_duration' = [t_duration EXCEPT ![ip] = t_elapsed[ip]]
         /\ t_pc' = [t_pc EXCEPT ![ip] = "insert"]
         /\ t_oks' = [t_oks EXCEPT ![ip] = @ + 1]
    /\ UNCHANGED <<i_pc, i_hosts, i_permits, i_handles, i_times, i_result,
                   i_client, t_attempt, t_elapsed, t_timer, t_failed,
                   t_started, t_fails>>
    /\ UNCHANGED <<snVars, arpVars, vendorVars>>

\* icmp.rs:42: the range is 0..=PING_RETRIES, one attempt too many
MoreAttempts_Inclusive(attempt) == attempt + 1 <= PING_RETRIES

\* icmp.rs:42: for attempt in 0..PING_RETRIES, after the attempt numbered
\* `attempt` has failed
MoreAttempts(attempt) == attempt + 1 < PING_RETRIES

\* icmp.rs:52, 42-49, 55: Err(_) => continue (the attempt timed out or
\* failed): the next attempt starts with its own start; after the last
\* attempt the function returns None, nothing is recorded (icmp.rs:93) and
\* the task ends: the permit drops and the task's locals are gone
PingErr ==
    /\ \E ip \in AllAddrs :
         /\ t_pc[ip] = "pinging"
         /\ IF MoreAttempts(t_attempt[ip])
            THEN /\ t_attempt' = [t_attempt EXCEPT ![ip] = @ + 1]
                 /\ t_fails' = [t_fails EXCEPT ![ip] = @ + 1]
                 /\ t_started' = [t_started EXCEPT ![ip] = @ + 1]
                 /\ UNCHANGED t_oks
                 /\ t_failed' = [t_failed EXCEPT ![ip] = @ \/ t_timer[ip] > 0]
                 /\ t_elapsed' = [t_elapsed EXCEPT ![ip] =
                                    StartElapsed(t_attempt[ip] + 1, @)]
                 /\ t_timer' = [t_timer EXCEPT ![ip] = 0]
                 /\ UNCHANGED <<t_pc, i_permits>>
            ELSE /\ i_permits' = Release(i_permits)
                 /\ t_pc' = [t_pc EXCEPT ![ip] = "done"]
                 /\ t_attempt' = [t_attempt EXCEPT ![ip] = 0]
                 /\ t_failed' = [t_failed EXCEPT ![ip] = FALSE]
                 /\ t_elapsed' = [t_elapsed EXCEPT ![ip] = 0]
                 /\ t_timer' = [t_timer EXCEPT ![ip] = 0]
                 /\ t_started' = [t_started EXCEPT ![ip] = 0]
                 /\ t_fails' = [t_fails EXCEPT ![ip] = 0]
                 /\ t_oks' = [t_oks EXCEPT ![ip] = 0]
    /\ UNCHANGED <<i_pc, i_hosts, i_handles, i_times, i_result, i_client,
                   t_duration>>
    /\ UNCHANGED <<snVars, arpVars, vendorVars>>

\* icmp.rs:93-97: Some(duration): lock, insert; the task ends: the permit
\* drops and the task's locals are gone
TaskInsert ==
    /\ \E ip \in AllAddrs :
         /\ t_pc[ip] = "insert"
         /\ i_times' = Insert(i_times, ip, t_duration[ip])
         /\ i_permits' = Release(i_permits)
         /\ t_pc' = [t_pc EXCEPT ![ip] = "done"]
         /\ t_attempt' = [t_attempt EXCEPT ![ip] = 0]
         /\ t_elapsed' = [t_elapsed EXCEPT ![ip] = 0]
         /\ t_timer' = [t_timer EXCEPT ![ip] = 0]
         /\ t_duration' = [t_duration EXCEPT ![ip] = 0]
         /\ t_failed' = [t_failed EXCEPT ![ip] = FALSE]
         /\ t_started' = [t_started EXCEPT ![ip] = 0]
         /\ t_fails' = [t_fails EXCEPT ![ip] = 0]
         /\ t_oks' = [t_oks EXCEPT ![ip] = 0]
    /\ UNCHANGED <<i_pc, i_hosts, i_handles, i_result, i_client>>
    /\ UNCHANGED <<snVars, arpVars, vendorVars>>

\* One unit of time passes for the attempts in flight; an attempt whose
\* timeout (icmp.rs:47) has expired ends before more time passes.
IcmpTick ==
    /\ \E ip \in AllAddrs : t_pc[ip] = "pinging"
    /\ \A ip \in AllAddrs : t_pc[ip] = "pinging" => t_timer[ip] < PING_TIMEOUT
    /\ t_timer' = [ip \in AllAddrs |->
                     IF t_pc[ip] = "pinging" THEN t_timer[ip] + 1 ELSE t_timer[ip]]
    /\ t_elapsed' = [ip \in AllAddrs |->
                     IF t_pc[ip] = "pinging" THEN t_elapsed[ip] + 1 ELSE t_elapsed[ip]]
    /\ UNCHANGED <<i_pc, i_hosts, i_permits, i_handles, i_times, i_result,
                   i_client, t_pc, t_attempt, t_duration, t_failed,
                   attemptVars>>
    /\ UNCHANGED <<snVars, arpVars, vendorVars>>

IcmpStep ==
    \/ IcmpEmptyCheck \/ IcmpClient \/ IcmpSpawn \/ IcmpSpawnDone \/ IcmpAwait
    \/ IcmpReturn \/ TaskAcquire \/ PingOk \/ PingErr \/ TaskInsert

IcmpNext ==
    \/ IcmpEmptyCheck \/ IcmpClient \/ IcmpSpawn \/ IcmpSpawnDone \/ IcmpAwait
    \/ IcmpReturn \/ TaskAcquire \/ PingOk \/ PingErr \/ TaskInsert
    \/ IcmpTick

(***************************************************************************)
(* src/src/network/vendor.rs                                               *)
(***************************************************************************)
Threads == 1 .. MaxThreads

\* Arguments of lookup_vendor: a MAC whose OUI the database knows, one it does
\* not know, and a string that is no MAC address.
KnownMac == "00:1C:B3:00:00:00"
VendorMacs == {KnownMac, "02:00:00:00:00:01", "not-a-mac"}

\* What a call returns: Option<String>; NotReturned while it has not.
NotReturned == [returned |-> FALSE]
NoVendor == [returned |-> TRUE, some |-> FALSE]
SomeVendor(name) == [returned |-> TRUE, some |-> TRUE, name |-> name]

\* vendor.rs:9: OnceLock::new()
EmptyCell == [state |-> "empty", value |-> "none"]

\* Oui::default() at vendor.rs:14: the database loads or it does not.
LoadOutcomes == {"db", "none"}

\* An initializer run by every thread that finds the cell not yet set.
MayInit_Racy(cell) == cell.state # "set"

\* OnceLock::get_or_init (vendor.rs:13): the closure is run by the one thread
\* that finds the cell empty; the others wait until the cell is set.
MayInit(cell) == cell.state = "empty"

\* vendor.rs:29-33: db.lookup_by_mac(mac): Ok(Some(entry)) for a known OUI,
\* Ok(None) for an unknown one, Err for a string that is no MAC
lookup_by_mac(mac) ==
    IF mac = KnownMac THEN SomeVendor("Apple, Inc.") ELSE NoVendor

VendorFresh ==
    /\ OUI_DB = EmptyCell
    /\ v_loads = 0
    /\ v_pc = [t \in Threads |-> "idle"]
    /\ v_mac = [t \in Threads |-> ""]
    /\ v_result = [t \in Threads |-> NotReturned]
    /\ v_calls = [t \in Threads |-> 0]

\* vendor.rs:25: a thread calls lookup_vendor(mac)
VendorCall ==
    /\ \E t \in Threads, mac \in VendorMacs :
         /\ v_pc[t] = "idle"
         /\ v_calls[t] < MaxLookups
         /\ v_pc' = [v_pc EXCEPT ![t] = "get"]
         /\ v_mac' = [v_mac EXCEPT ![t] = mac]
         /\ v_result' = [v_result EXCEPT ![t] = NotReturned]
    /\ UNCHANGED <<OUI_DB, v_loads, v_calls>>
    /\ UNCHANGED <<snVars, arpVars, icmpVars>>

\* vendor.rs:13: get_or_init finds the cell not initialized and this thread
\* becomes the one that runs the closure
VendorInitBegin ==
    /\ \E t \in Threads :
         /\ v_pc[t] = "get"
         /\ MayInit(OUI_DB)
         /\ v_pc' = [v_pc EXCEPT ![t] = "init"]
    /\ OUI_DB' = [OUI_DB EXCEPT !.state = "running"]
    /\ UNCHANGED <<v_loads, v_mac, v_result, v_calls>>
    /\ UNCHANGED <<snVars, arpVars, icmpVars>>

\* vendor.rs:14: the closure runs: Oui::default().ok(); the cell is set
VendorInitEnd ==
    /\ \E t \in Threads, loaded \in LoadOutcomes :
         /\ v_pc[t] = "init"
         /\ OUI_DB' = [state |-> "set", value |-> loaded]
         /\ v_pc' = [v_pc EXCEPT ![t] = "get"]
    /\ v_loads' = v_loads + 1
    /\ UNCHANGED <<v_mac, v_result, v_calls>>
    /\ UNCHANGED <<snVars, arpVars, icmpVars>>

\* vendor.rs:13-15, 26-33: get_or_init returns the cell's value; None ends the
\* call (the ? of vendor.rs:26), a database is asked for the MAC
VendorLookup ==
    /\ \E t \in Threads :
         /\ v_pc[t] = "get"
         /\ OUI_DB.state = "set"
         /\ v_result' = [v_result EXCEPT ![t] =
                           IF OUI_DB.value = "none" THEN NoVendor
                           ELSE lookup_by_mac(v_mac[t])]
         /\ v_pc' = [v_pc EXCEPT ![t] = "idle"]
         /\ v_calls' = [v_calls EXCEPT ![t] = @ + 1]
    /\ UNCHANGED <<OUI_DB, v_loads, v_mac>>
    /\ UNCHANGED <<snVars, arpVars, icmpVars>>

VendorNext == VendorCall \/ VendorInitBegin \/ VendorInitEnd \/ VendorLookup

(***************************************************************************)
(* The scan: Layer-2 discovery, then latency probing of what it found      *)
(***************************************************************************)
\* The orchestrator hands the discovery map to icmp_scan; the locals of
\* active_arp_scan are gone.
ScanHandoff ==
    /\ a_pc = "returned"
    /\ a_result.ok
    /\ i_pc = "idle"
    /\ i_pc' = "called"
    /\ i_hosts' = a_result.map
    /\ a_pc' = "handed"
    /\ discovered' = EmptyMap
    /\ a_round' = 1
    /\ a_elapsed' = 0
    /\ a_idx' = 1
    /\ a_remaining' = <<>>
    /\ a_sleep' = 0
    /\ a_sent' = {}
    /\ a_known' = {}
    /\ a_eval' = NoneOf(a_targets, "unseen")
    /\ a_count' = NoneOf(a_targets, 0)
    /\ a_total' = NoneOf(a_targets, 0)
    /\ r_pc' = "none"
    /\ r_left' = 0
    /\ r_frame' = NoFrame
    /\ r_verdict' = "none"
    /\ arrived' = 0
    /\ UNCHANGED <<argVars, a_result, a_lock, qual_arrived, heard>>
    /\ UNCHANGED <<i_permits, i_handles, i_times, i_result, i_client, taskVars>>
    /\ UNCHANGED <<snVars, vendorVars>>

ScanNext ==
    \/ ArpOpen \/ ArpSpawn \/ ArpSpawnWake \/ ArpRoundStart \/ ArpFilter
    \/ ArpSend \/ ArpWait \/ ArpWake \/ ArpRoundEnd
    \/ ArpJoin \/ ArpFinalLock \/ ArpReturn
    \/ RecvStart \/ RecvCheck \/ RecvNext \/ RecvNextErr \/ RecvLock \/ RecvInsert
    \/ Tick
    \/ ScanHandoff
    \/ IcmpEmptyCheck \/ IcmpClient \/ IcmpSpawn \/ IcmpSpawnDone \/ IcmpAwait
    \/ IcmpReturn \/ TaskAcquire \/ PingOk \/ PingErr \/ TaskInsert
    \/ IcmpTick

(***************************************************************************)
(* Specifications                                                          *)
(***************************************************************************)
InitSubnet == SubnetInit /\ ArpIdle /\ IcmpIdle /\ VendorFresh
InitArp == SubnetIdle /\ ArpInit /\ IcmpIdle /\ VendorFresh
InitIcmp == SubnetIdle /\ ArpIdle /\ IcmpInit /\ VendorFresh
InitVendor == SubnetIdle /\ ArpIdle /\ IcmpIdle /\ VendorFresh

\* The subnet enumerator called once on any interface.
SpecSubnet == InitSubnet /\ [][SubnetNext]_vars
\* One call of active_arp_scan.
SpecArp == InitArp /\ [][ArpNext]_vars
\* One call of icmp_scan on any discovery map.
SpecIcmp == InitIcmp /\ [][IcmpNext]_vars
\* One scan: active_arp_scan, then icmp_scan on the map it returned.
Spec == InitArp /\ [][ScanNext]_vars
\* One process whose threads call lookup_vendor.
SpecVendor == InitVendor /\ [][VendorNext]_vars

\* active_arp_scan with its two threads scheduled and time passing; whether
\* frames arrive, and whether rx.next() fails, is the link's business.
FairSpecArp ==
    /\ InitArp /\ [][ArpNext]_vars
    /\ WF_vars(MainStep) /\ WF_vars(ReceiverStep) /\ WF_vars(Tick)

\* icmp_scan with its tasks scheduled; an echo attempt ends, by a reply, an
\* error or its timeout.
FairSpecIcmp == InitIcmp /\ [][IcmpNext]_vars /\ WF_vars(IcmpStep)

(***************************************************************************)
(* Properties                                                              *)
(***************************************************************************)
OkMap(m) == [ok |-> TRUE, none |-> FALSE, map |-> m]

\* The low 16 bits of an address, and the hosts of a subnet by arithmetic:
\* the addresses strictly between the subnet's first and last address.
Low16(addr) == addr[3] * 256 + addr[4]
SubnetSize(prefix) == 2 ^ (IPV4_BITS - prefix)
SubnetBase(addr, prefix) == Low16(addr) - (Low16(addr) % SubnetSize(prefix))
IsHostOf(ip, addr, prefix) ==
    /\ ip[1] = addr[1] /\ ip[2] = addr[2]
    /\ SubnetBase(addr, prefix) < Low16(ip)
    /\ Low16(ip) < SubnetBase(addr, prefix) + SubnetSize(prefix) - 1

\* C1: the discovered map is first-seen-wins: an entry (ip -> mac), once
\* inserted, is neither changed nor removed by any later step of the scan,
\* whatever replies arrive and however the two threads interleave.
C1_FirstSeenWins ==
    [][\A ip \in DOMAIN discovered :
          ip \in DOMAIN discovered' /\ discovered'[ip] = discovered[ip]]_vars

\* The receiver has processed a reply for an address already mapped to another
\* hardware address, and the first one is still there.
C1_Witness ==
    /\ r_verdict = "ignored"
    /\ r_frame.sender_ip \in DOMAIN discovered
    /\ discovered[r_frame.sender_ip] # r_frame.sender_mac

\* C2: every key of the discovered map is a host address of the scan's subnet
\* (inside it, neither its network nor its broadcast address), and the map
\* changes only by the insertion of the sender of an ARP reply from such a host.
C2_OnlyHostRepliesInserted ==
    /\ [](\A ip \in DOMAIN discovered :
            IsHostOf(ip, a_subnet.addr, a_subnet.prefix))
    /\ [][discovered' # discovered =>
            /\ r_frame.ethertype = "arp"
            /\ r_frame.op = "reply"
            /\ IsHostOf(r_frame.sender_ip, a_subnet.addr, a_subnet.prefix)
            /\ discovered' = Insert(discovered, r_frame.sender_ip,
                                    r_frame.sender_mac)]_vars

\* The receiver has dropped a reply that came from the broadcast address, and
\* the map holds a host.
C2_Witness ==
    /\ r_verdict = "dropped"
    /\ r_frame.ethertype = "arp"
    /\ r_frame.op = "reply"
    /\ r_frame.sender_ip = Broadcast(a_subnet)
    /\ DOMAIN discovered # {}

\* C3: for a prefix length of at most 32 the enumerator succeeds, the subnet it
\* returns is the one containing the address, and the host list is the ascending
\* sequence of all addresses strictly between the subnet's first and last
\* address: 2 hosts for a /30, none for a /31 or /32, .9 to .14 for
\* 192.168.1.10/29.
C3_HostListExact ==
    (sn_pc = "done" /\ sn_iface.prefix_len <= IPV4_BITS) =>
        LET ips == sn_result.ips
            p == sn_iface.prefix_len
            base == SubnetBase(sn_iface.ip, p)
        IN  /\ sn_result.ok
            /\ sn_result.subnet.prefix = p
            /\ sn_result.subnet.addr =
                 <<sn_iface.ip[1], sn_iface.ip[2], base \div 256, base % 256>>
            /\ Len(ips) = Max(SubnetSize(p) - 2, 0)
            /\ \A i \in 1 .. Len(ips) :
                 /\ ips[i][1] = sn_iface.ip[1] /\ ips[i][2] = sn_iface.ip[2]
                 /\ Low16(ips[i]) = base + i
            /\ (p = 30 => Len(ips) = 2)
            /\ (p >= 31 => ips = <<>>)
            /\ (sn_iface.ip = <<192, 168, 1, 10>> /\ p = 29 =>
                  ips = [i \in 1 .. 6 |-> <<192, 168, 1, 8 + i>>])

C3_Witness ==
    /\ sn_pc = "done"
    /\ sn_iface = [ip |-> <<192, 168, 1, 10>>, prefix_len |-> 29]
    /\ Len(sn_result.ips) = 6
    /\ sn_result.ips[1] = <<192, 168, 1, 9>>

\* C4: once the channel is open active_arp_scan always eventually returns, also
\* when no frame ever arrives on the link.
C4_ScanReturns == <>(a_pc = "failed" \/ a_pc = "returned")

\* C5: tasks are spawned and latencies recorded only for keys of the discovery
\* map icmp_scan was given, and the map it returns has no other key.
C5_LatencyKeysDiscovered ==
    /\ DOMAIN i_times \subseteq DOMAIN i_hosts
    /\ \A ip \in AllAddrs : t_pc[ip] # "none" => ip \in DOMAIN i_hosts
    /\ i_pc = "returned" => DOMAIN i_result.map \subseteq DOMAIN i_hosts

\* icmp_scan has returned latencies for some of the hosts it was given, not all.
C5_Witness ==
    /\ i_pc = "returned"
    /\ DOMAIN i_result.map # {}
    /\ DOMAIN i_result.map # DOMAIN i_hosts

\* The probe tasks that hold a permit.
InFlight == {ip \in AllAddrs : t_pc[ip] \in {"pinging", "insert"}}

\* C6: never more than MAX_CONCURRENT_PINGS probe tasks hold a permit.
C6_GateCap == Cardinality(InFlight) <= MAX_CONCURRENT_PINGS

\* The gate is full and a task waits at it.
C6_Witness ==
    /\ Cardinality(InFlight) = MAX_CONCURRENT_PINGS
    /\ \E ip \in AllAddrs : t_pc[ip] = "acquire"

\* C7: icmp_scan eventually returns, which it does only after every task it
\* spawned has got a permit and finished, whichever way its probe ended; when
\* it has returned no task is left waiting or running and every permit is free.
C7_GateNeverStarved ==
    /\ <>(i_pc = "returned")
    /\ [](i_pc = "returned" =>
            /\ \A ip \in AllAddrs : t_pc[ip] \in {"none", "done"}
            /\ i_client = "ok" =>
                 /\ i_permits = MAX_CONCURRENT_PINGS
                 /\ i_handles = <<>>
                 /\ \A ip \in DOMAIN i_hosts : t_pc[ip] = "done")

\* icmp_scan has returned after one task got a reply and another used up its
\* attempts.
C7_Witness ==
    /\ i_pc = "returned"
    /\ i_permits = MAX_CONCURRENT_PINGS
    /\ \E ip \in DOMAIN i_hosts : t_pc[ip] = "done" /\ ip \in DOMAIN i_times
    /\ \E ip \in DOMAIN i_hosts : t_pc[ip] = "done" /\ ip \notin DOMAIN i_times

\* C8: the step in which the last of a task's PING_RETRIES attempts fails
\* leaves its host without a latency entry, and none is made later (an entry
\* is made only by a task whose attempt succeeded); a latency, when it is
\* recorded, is the time the successful attempt itself took, and is not
\* changed afterwards.
C8_LatencyOfSuccessfulAttempt ==
    [][\A ip \in AllAddrs :
         /\ (t_pc[ip] = "pinging" /\ t_pc'[ip] = "done") =>
                 /\ t_attempt[ip] = PING_RETRIES - 1
                 /\ ip \notin DOMAIN i_times'
         /\ (ip \notin DOMAIN i_times /\ ip \in DOMAIN i_times') =>
                 /\ t_pc[ip] = "insert"
                 /\ i_times'[ip] = t_timer[ip]
         /\ ip \in DOMAIN i_times =>
                 ip \in DOMAIN i_times' /\ i_times'[ip] = i_times[ip]]_vars

\* One host has used up its attempts and has no entry; another got its reply on
\* the last attempt, at once, after failed attempts that took time.
C8_Witness ==
    /\ \E ip \in AllAddrs : t_pc[ip] = "done" /\ ip \notin DOMAIN i_times
    /\ \E ip \in AllAddrs :
         /\ t_pc[ip] = "insert"
         /\ t_attempt[ip] = PING_RETRIES - 1
         /\ t_failed[ip]
         /\ t_duration[ip] = 0

\* C9: if no qualifying reply arrived, a scan that returns returns Ok with an
\* empty map; icmp_scan given an empty map returns Ok with an empty map and
\* creates no client, no task and no probe.
C9_NoHostsIsNotAnError ==
    /\ (a_pc \in {"returned", "handed"} /\ ~qual_arrived) =>
          a_result = OkMap(EmptyMap)
    /\ (i_pc # "idle" /\ DOMAIN i_hosts = {}) =>
          /\ i_pc \in {"called", "returned"}
          /\ i_client = "none"
          /\ i_handles = <<>>
          /\ \A ip \in AllAddrs : t_pc[ip] = "none"
          /\ i_pc = "returned" => i_result = OkMap(EmptyMap)

\* A scan in which frames arrived, none of them qualifying, has gone through
\* both phases.
C9_Witness ==
    /\ a_pc = "handed"
    /\ ~qual_arrived
    /\ a_result = OkMap(EmptyMap)
    /\ i_pc = "returned"
    /\ i_result = OkMap(EmptyMap)

\* Error texts that mention a missing capability or privilege.
PrivilegeTexts == {TXT_EPERM, TXT_EACCES, TXT_WINACCESS, TXT_PCAP, TXT_NPCAP}

\* C10: when the channel does not open the call fails and does nothing else
\* (no receiver thread, no request sent, no map); the error is the remediation
\* message when the error text mentions a missing capability or privilege,
\* the generic one otherwise.
C10_OpenFailureIsFatal ==
    a_pc = "failed" =>
        /\ ~a_result.ok /\ ~a_result.none
        /\ r_pc = "none"
        /\ a_sent = {}
        /\ discovered = EmptyMap
        /\ a_result.error = "unsupported" \/
             (a_result.error = "remediation" <=> a_result.text \in PrivilegeTexts)

\* What holds of a failed open: the call fails and does nothing else, and the
\* remediation message is given exactly for the texts that contain one of the
\* five substrings of arp.rs:81-85.
OpenFailureAsCoded ==
    a_pc = "failed" =>
        /\ ~a_result.ok /\ ~a_result.none
        /\ r_pc = "none"
        /\ a_sent = {}
        /\ discovered = EmptyMap
        /\ a_result.error = "unsupported" \/
             (a_result.error = "remediation" <=>
                a_result.text \in {TXT_WINACCESS, TXT_PCAP, TXT_NPCAP})

\* C11: when the ICMP client cannot be created, icmp_scan, whatever non-empty
\* map it was given, returns Ok with an empty latency map, has spawned no
\* task and taken no permit, and its result is not an error.
C11_ClientFailureDegrades ==
    i_client = "unavailable" =>
        /\ DOMAIN i_hosts # {}
        /\ i_pc = "returned"
        /\ i_result.ok
        /\ i_result = OkMap(EmptyMap)
        /\ i_handles = <<>>
        /\ i_times = EmptyMap
        /\ \A ip \in AllAddrs : t_pc[ip] = "none"

\* icmp_scan has returned without a client on a map of two hosts.
C11_Witness ==
    /\ i_client = "unavailable"
    /\ i_pc = "returned"
    /\ Cardinality(DOMAIN i_hosts) >= 2
    /\ i_result = OkMap(EmptyMap)

\* C12: the map active_arp_scan returns is determined by the subnet and the
\* sequence of frames the receiver was handed, and by nothing else (not by the
\* interleaving with the sending loop, the rounds or the time): it maps each
\* host that an ARP reply came from to the hardware address of the first such
\* reply. Two scans handed the same frames return the same map.
C12_MapDeterminedByFrames ==
    a_pc = "returned" => a_result = OkMap(heard)

\* A scan has returned after the same host answered with two hardware
\* addresses.
C12_Witness ==
    /\ a_pc = "returned"
    /\ arrived >= 2
    /\ a_result.ok
    /\ <<192, 168, 1, 9>> \in DOMAIN a_result.map
    /\ a_result.map[<<192, 168, 1, 9>>] = "m2"

\* C13: the initializer of the vendor database runs at most once, however the
\* first calls of lookup_vendor interleave; the cell, once set, never changes;
\* and when the load failed every call returns None, then and later, and no
\* call starts another load.
C13_VendorDbLoadedOnce ==
    /\ [](v_loads <= 1)
    /\ [](v_loads = 1 <=> OUI_DB.state = "set")
    /\ []((OUI_DB.state = "set" /\ OUI_DB.value = "none") =>
             \A t \in Threads : v_result[t] \in {NotReturned, NoVendor})
    /\ [][OUI_DB.state = "set" => OUI_DB' = OUI_DB /\ v_loads' = v_loads]_vars

\* The load failed once, and every thread has made a first and a later call;
\* all got None.
C13_Witness ==
    /\ OUI_DB = [state |-> "set", value |-> "none"]
    /\ v_loads = 1
    /\ \A t \in Threads : v_calls[t] >= 2 /\ v_result[t] = NoVendor

\* C14: called with a prefix length above 32, calculate_subnet_ips returns an
\* error and neither a subnet nor a host list; called with a prefix length of
\* at most 32 it succeeds, whatever the address.
C14_InvalidPrefixRejected ==
    sn_pc = "done" =>
        IF sn_iface.prefix_len > 32
        THEN /\ ~sn_result.ok
             /\ DOMAIN sn_result = {"ok", "none", "error"}
             /\ sn_result.error =
                  "Failed to create network from interface IP and prefix"
        ELSE /\ sn_result.ok
             /\ {"subnet", "ips"} \subseteq DOMAIN sn_result

\* The enumerator has refused 192.168.1.10/33.
C14_Witness ==
    /\ sn_pc = "done"
    /\ sn_iface = [ip |-> <<192, 168, 1, 10>>, prefix_len |-> 33]
    /\ ~sn_result.ok

\* The sends of the current round are complete.
SendsDone ==
    \/ a_pc \in {"sleeping", "round_end"}
    \/ a_pc = "send" /\ a_remaining = <<>>

\* C15: in each round a request goes exactly once to every target the
\* round's filter found missing from the map and never to a target the filter
\* found in it; so no request goes to an address that was in the map when the
\* round began, and no address gets more than ARP_ROUNDS requests in a scan.
C15_OneRequestPerMissingTarget ==
    /\ [](\A ip \in DOMAIN a_count :
            /\ a_count[ip] <= 1
            /\ a_total[ip] <= ARP_ROUNDS
            /\ a_eval[ip] # "missing" => a_count[ip] = 0)
    /\ [](SendsDone =>
            \A ip \in DOMAIN a_count :
                /\ a_eval[ip] # "unseen"
                /\ a_eval[ip] = "missing" <=> a_count[ip] = 1
                /\ ip \in a_known => a_eval[ip] = "present")
    /\ [][\A ip \in DOMAIN a_total :
            a_total'[ip] > a_total[ip] =>
                /\ a_total'[ip] = a_total[ip] + 1
                /\ a_count'[ip] = a_count[ip] + 1
                /\ a_eval[ip] = "missing"
                /\ ip \notin a_known]_vars

\* The second round is over: 192.168.1.9, found in the first round, got no
\* second request, 192.168.1.10, still missing, got its second.
C15_Witness ==
    /\ a_round = 2
    /\ SendsDone
    /\ <<192, 168, 1, 9>> \in a_known
    /\ a_total[<<192, 168, 1, 9>>] = 1
    /\ a_count[<<192, 168, 1, 9>>] = 0
    /\ a_total[<<192, 168, 1, 10>>] = 2
    /\ a_count[<<192, 168, 1, 10>>] = 1

\* C16: the receiver thread is running whenever a request is sent: no
\* request of any round is sent before the receiver has started or after it
\* has passed its deadline and stopped.
C16_ReceiverOutlastsSends ==
    [][(\E ip \in DOMAIN a_total : a_total'[ip] > a_total[ip]) =>
           r_pc \notin {"none", "done"}]_vars

\* C17: active_arp_scan returns its map only after the receiver thread has
\* ended; the map returned is the shared map as the receiver's insertions
\* built it, and nothing is inserted once the call has returned.
C17_ReturnsFrozenMap ==
    /\ [](a_pc \in {"final_lock", "final"} => r_pc = "done")
    /\ [](a_pc = "returned" =>
            IF a_result.ok
            THEN r_pc = "done" /\ a_lock = "free" /\ a_result = OkMap(discovered)
            ELSE r_pc = "none" /\ discovered = EmptyMap)
    /\ [][discovered' # discovered /\ a_pc' # "handed" =>
            /\ r_pc = "insert"
            /\ r_verdict' = "inserted"
            /\ a_pc \notin {"final_lock", "final", "returned"}
            /\ discovered' = Insert(discovered, r_frame.sender_ip,
                                    r_frame.sender_mac)]_vars
    /\ [][a_pc = "returned" /\ a_pc' = "returned" =>
            discovered' = discovered /\ a_result' = a_result]_vars

\* The call has returned a map with an entry the receiver put there.
C17_Witness ==
    /\ a_pc = "returned"
    /\ a_result.ok
    /\ r_pc = "done"
    /\ <<192, 168, 1, 9>> \in DOMAIN a_result.map
    /\ a_total[<<192, 168, 1, 9>>] = 1

\* C18: in every round the requests are all sent before the wait begins and
\* none is sent during it; the wait is what the sends left of ARP_TIMEOUT_MS,
\* none when they left nothing; the calling thread leaves a round (for the
\* next round or for the join) no earlier than ARP_TIMEOUT_MS after the round
\* started and with all of the round's requests sent.
C18_RoundTiming ==
    /\ [](a_pc \in {"sleeping", "round_end"} => a_remaining = <<>>)
    /\ [][a_pc # "sleeping" /\ a_pc' = "sleeping" =>
            /\ a_pc = "send"
            /\ a_remaining = <<>>
            /\ a_elapsed < ARP_TIMEOUT_MS
            /\ a_sleep' = ARP_TIMEOUT_MS - a_elapsed]_vars
    /\ [][a_pc = "send" /\ a_pc' = "round_end" =>
            a_remaining = <<>> /\ a_elapsed >= ARP_TIMEOUT_MS]_vars
    /\ [][(a_pc \in {"sleeping", "round_end"}) => sendVars' = sendVars]_vars
    /\ [][a_pc = "round_end" /\ a_pc' # "round_end" =>
            a_elapsed >= ARP_TIMEOUT_MS /\ a_sleep = 0]_vars
    /\ [][a_round' > a_round =>
            a_pc = "round_end" /\ a_pc' = "round_start"]_vars

\* The second round is about to start: the first round's requests were all
\* sent, and its whole budget has passed since it started.
C18_Witness ==
    /\ a_round = 2
    /\ a_pc = "round_start"
    /\ a_elapsed = ARP_TIMEOUT_MS
    /\ \A ip \in DOMAIN a_count : a_count[ip] = 1

\* C19: the map's lock is held for one map operation only: the receiver
\* holds it just between taking it and its check-and-insert, never while it
\* waits in rx.next(); the calling thread holds it in no state of the round
\* loop, so not while it sends or sleeps; the receiver's check and its insert
\* are one step under the lock, with no change of the map in between.
C19_LockHeldForOneOperation ==
    /\ [](a_lock = "receiver" => r_pc = "insert")
    /\ [](r_pc \in {"start", "check", "next", "lock", "done"} =>
            a_lock # "receiver")
    /\ [](a_lock = "main" => a_pc = "final" /\ r_pc = "done")
    /\ [](a_pc \in {"spawn_sleep", "round_start", "filter", "send", "sleeping",
                     "round_end", "join"} => a_lock # "main")
    /\ [][a_lock = "receiver" =>
            \/ a_lock' = "receiver" /\ discovered' = discovered /\ r_pc' = r_pc
            \/ /\ a_lock' = "free"
               /\ r_verdict' = IF r_frame.sender_ip \in DOMAIN discovered
                               THEN "ignored" ELSE "inserted"
               /\ discovered' = IF r_frame.sender_ip \in DOMAIN discovered
                                THEN discovered
                                ELSE Insert(discovered, r_frame.sender_ip,
                                            r_frame.sender_mac)]_vars
    /\ [][discovered' # discovered /\ a_pc' # "handed" =>
            a_lock = "receiver" /\ a_lock' = "free"]_vars

\* The receiver is inside its critical section while the calling thread is in
\* the middle of a round's send loop.
C19_Witness ==
    /\ a_lock = "receiver"
    /\ r_pc = "insert"
    /\ a_pc = "send"
    /\ Len(a_remaining) = 1
    /\ a_total[<<192, 168, 1, 9>>] = 1

\* Echo attempts for ip that have started and not yet ended.
AttemptsOpen(ip) == t_started[ip] - t_fails[ip] - t_oks[ip]

\* C20: for each host the echo attempts are made one at a time, at most
\* PING_RETRIES of them; an attempt starts only when every attempt before it
\* has ended in failure, so none starts after one has succeeded.
C20_AttemptsInSequence ==
    /\ [](\A ip \in AllAddrs :
            /\ t_started[ip] <= PING_RETRIES
            /\ t_oks[ip] <= 1
            /\ AttemptsOpen(ip) \in {0, 1}
            /\ AttemptsOpen(ip) = 1 <=> t_pc[ip] = "pinging")
    /\ [][\A ip \in AllAddrs :
            t_started'[ip] > t_started[ip] =>
                /\ t_started'[ip] = t_started[ip] + 1
                /\ t_fails'[ip] = t_started[ip]
                /\ t_oks[ip] = 0 /\ t_oks'[ip] = 0]_vars
    /\ [][\A ip \in AllAddrs :
            t_oks[ip] > 0 => t_started'[ip] <= t_started[ip]]_vars

\* A host answered its second attempt, after the first had failed.
C20_Witness ==
    \E ip \in AllAddrs :
        /\ t_pc[ip] = "insert"
        /\ t_started[ip] = 2
        /\ t_fails[ip] = 1
        /\ t_oks[ip] = 1

====
